---- MODULE Spec2Model ----
(***************************************************************************)
(* A model of pygeoboundaries.py: the checks nameCheck, isoCheck,          *)
(* boundaryCheck, projectionCheck, metaCheck and checkLicensePng, the      *)
(* loaders loadFile and metaLoad with the extraction folder they share,    *)
(* close, and allChecks, which runs the six checks in sequence.            *)
(*                                                                         *)
(* Python strings are TLA+ strings; TLC evaluates Len, \o and SubSeq on    *)
(* them, and the str methods the code calls are defined from these.        *)
(* print(severity, message) appends the record [sev, msg] to a log.        *)
(***************************************************************************)
EXTENDS Integers, Sequences, FiniteSets, TLC

(***************************************************************************)
(* Python str operations used by the code                                  *)
(***************************************************************************)
Char(s, i) == SubSeq(s, i, i)

UpperLetters == "ABCDEFGHIJKLMNOPQRSTUVWXYZ"

LowerLetters == "abcdefghijklmnopqrstuvwxyz"

Digits == "0123456789"

\* The position of character c in string s, 0 when it is not there.
IndexIn(c, s) ==
    IF \E i \in 1..Len(s) : Char(s, i) = c
    THEN CHOOSE i \in 1..Len(s) : Char(s, i) = c
    ELSE 0

\* Each capital letter's small letter, and each small letter's capital.
ToLower ==
    [c \in {Char(UpperLetters, i) : i \in 1..26} |-> Char(LowerLetters, IndexIn(c, UpperLetters))]

ToUpper ==
    [c \in {Char(LowerLetters, i) : i \in 1..26} |-> Char(UpperLetters, IndexIn(c, LowerLetters))]

LowerChar(c) == IF c \in DOMAIN ToLower THEN ToLower[c] ELSE c

UpperChar(c) == IF c \in DOMAIN ToUpper THEN ToUpper[c] ELSE c

RECURSIVE Lower(_)
\* str.lower()
Lower(s) ==
    IF Len(s) = 0 THEN "" ELSE LowerChar(Char(s, 1)) \o Lower(SubSeq(s, 2, Len(s)))

RECURSIVE Upper(_)
\* str.upper()
Upper(s) ==
    IF Len(s) = 0 THEN "" ELSE UpperChar(Char(s, 1)) \o Upper(SubSeq(s, 2, Len(s)))

\* str.endswith(suffix)
EndsWith(s, suffix) ==
    /\ Len(suffix) <= Len(s)
    /\ SubSeq(s, Len(s) - Len(suffix) + 1, Len(s)) = suffix

\* Whether sub occurs in s at position i.
OccursAt(s, sub, i) ==
    /\ i + Len(sub) - 1 <= Len(s)
    /\ SubSeq(s, i, i + Len(sub) - 1) = sub

\* The first position of sub in s, 0 when there is none (str.find, 1-based).
Find(s, sub) ==
    IF \E i \in 1..Len(s) : OccursAt(s, sub, i)
    THEN CHOOSE i \in 1..Len(s) :
            /\ OccursAt(s, sub, i)
            /\ \A j \in 1..(i - 1) : ~OccursAt(s, sub, j)
    ELSE 0

\* Python's `sub in s`, for a non-empty sub.
Contains(s, sub) == Find(s, sub) # 0

RECURSIVE Split(_, _)
\* str.split(sep): the parts of s between the occurrences of sep.
Split(s, sep) ==
    LET i == Find(s, sep) IN
    IF i = 0 THEN <<s>>
    ELSE <<SubSeq(s, 1, i - 1)>> \o Split(SubSeq(s, i + Len(sep), Len(s)), sep)

IsSpace(c) == c \in {" ", "\t"}

RECURSIVE LStrip(_)
LStrip(s) ==
    IF Len(s) > 0 /\ IsSpace(Char(s, 1)) THEN LStrip(SubSeq(s, 2, Len(s))) ELSE s

RECURSIVE RStrip(_)
RStrip(s) ==
    IF Len(s) > 0 /\ IsSpace(Char(s, Len(s))) THEN RStrip(SubSeq(s, 1, Len(s) - 1)) ELSE s

\* str.strip()
Strip(s) == RStrip(LStrip(s))

RECURSIVE RemoveSpaces(_)
\* str.replace(" ", "")
RemoveSpaces(s) ==
    IF Len(s) = 0 THEN ""
    ELSE (IF Char(s, 1) = " " THEN "" ELSE Char(s, 1)) \o RemoveSpaces(SubSeq(s, 2, Len(s)))

\* s[:-2]
DropLast2(s) == IF Len(s) <= 2 THEN "" ELSE SubSeq(s, 1, Len(s) - 2)

IsDigits(s) == Len(s) > 0 /\ \A i \in 1..Len(s) : IndexIn(Char(s, i), Digits) # 0

RECURSIVE ToNat(_)
\* The number a string of decimal digits denotes.
ToNat(s) ==
    IF Len(s) = 0 THEN 0
    ELSE 10 * ToNat(SubSeq(s, 1, Len(s) - 1)) + (IndexIn(Char(s, Len(s)), Digits) - 1)

(***************************************************************************)
(* State                                                                   *)
(***************************************************************************)
VARIABLES
    licenseList1,   \* the module's license vocabulary, read once at import
    folder,         \* temp_extraction_folder: the files in it, each with the
                    \* archive it was extracted from
    path,           \* per run of allChecks: the path it was called with
    pc,             \* per run: the check to run next, or "Completed"
    raised,         \* per run: the check whose error ended the run, or "none"
    findings,       \* per run: the findings printed so far
    loaded,         \* per run: the file its last loadFile or metaLoad read
    passed,         \* per run: whether "All checks are passes" was printed
    arg,            \* the argument of a check called on its own
    out             \* what that call printed and returned

(***************************************************************************)
(* Findings: print(severity, message)                                      *)
(***************************************************************************)
Info(msg) == <<[sev |-> "INFO", msg |-> msg]>>

Warn(msg) == <<[sev |-> "WARN", msg |-> msg]>>

Critical(msg) == <<[sev |-> "CRITICAL", msg |-> msg]>>

Sevs(log) == [i \in 1..Len(log) |-> log[i].sev]

HasCritical(log) == \E i \in 1..Len(log) : log[i].sev = "CRITICAL"

(***************************************************************************)
(* Reference vocabularies                                                  *)
(***************************************************************************)
\* countries["Alpha-3code"].tolist(): a few rows of the ISO table.
isoList1 == {"USA", "IND", "AFG"}

IgoShort == "Creative Commons Attribution for Intergovernmental Organisations"

IgoLong == "Creative Commons Attribution 3.0 Intergovernmental Organisations (CC BY 3.0 IGO)"

\* licenses["license_name"].tolist(): the names as the table writes them, and a
\* table whose names are all written in lower case.
LicenseTable == {IgoLong, "Public Domain"}

LicenseTables == {LicenseTable, {Lower(IgoLong), "public domain"}}

(***************************************************************************)
(* metaCheck: the line parser                                              *)
(***************************************************************************)
ReadErrorMsg == "At least one line of meta.txt failed to be read correctly: "

\* ParseLine without the except branch's sentinel: a line with no colon keeps
\* its text as the key, with an empty value, and prints nothing.
ParseLineKeepsKey(m) ==
    LET e == Split(m, ":") IN
    [key |-> Strip(e[1]),
     val |-> IF Len(e) < 2 THEN "" ELSE Strip(IF Len(e) > 2 THEN e[2] \o e[3] ELSE e[2]),
     log |-> <<>>]

\* One iteration's try block: e = m.split(":"); a third part is appended to
\* the second; e[1] raises IndexError when the line holds no colon, and the
\* except branch prints a WARN and sets both key and val to "readError".
ParseLine(m) ==
    LET e == Split(m, ":") IN
    IF Len(e) < 2
    THEN [key |-> "readError", val |-> "readError", log |-> Warn(ReadErrorMsg \o m)]
    ELSE [key |-> Strip(e[1]),
          val |-> Strip(IF Len(e) > 2 THEN e[2] \o e[3] ELSE e[2]),
          log |-> <<>>]

(***************************************************************************)
(* metaCheck: the year rule                                                *)
(***************************************************************************)
\* datetime.datetime.now().year
CurrentYear == 2026

IsLeap(y) == (y % 4 = 0 /\ y % 100 # 0) \/ y % 400 = 0

DaysIn(mo, y) ==
    IF mo = 2 THEN (IF IsLeap(y) THEN 29 ELSE 28)
    ELSE IF mo \in {4, 6, 9, 11} THEN 30 ELSE 31

\* %d also accepts a space and one digit.
DayDigits(d) == IF Len(d) = 2 /\ Char(d, 1) = " " THEN Char(d, 2) ELSE d

\* datetime.strptime(s, "%d-%m-%Y") returns: a day of one or two digits, a
\* month of one or two digits, a year of four, all of s consumed, and the date
\* exists.
IsDate(s) ==
    LET p == Split(s, "-") IN
    /\ Len(p) = 3
    /\ LET d == DayDigits(p[1]) IN
       /\ IsDigits(d) /\ Len(d) <= 2
       /\ IsDigits(p[2]) /\ Len(p[2]) <= 2
       /\ IsDigits(p[3]) /\ Len(p[3]) = 4
       /\ ToNat(p[3]) >= 1
       /\ ToNat(p[2]) \in 1..12
       /\ ToNat(d) \in 1..DaysIn(ToNat(p[2]), ToNat(p[3]))

\* The text of a decimal literal without its sign.
Unsigned(s) == IF Len(s) > 0 /\ Char(s, 1) \in {"+", "-"} THEN SubSeq(s, 2, Len(s)) ELSE s

\* float(s) returns, for s written with a sign, digits and a point only (the
\* inputs of this model hold no exponent, underscore, "inf" or "nan").
IsFloat(s) ==
    LET p == Split(Unsigned(Strip(s)), ".") IN
    \/ Len(p) = 1 /\ IsDigits(p[1])
    \/ /\ Len(p) = 2
       /\ p[1] = "" \/ IsDigits(p[1])
       /\ p[2] = "" \/ IsDigits(p[2])
       /\ p[1] # "" \/ p[2] # ""

\* int(float(s)): the value truncated toward zero.
IntOfFloat(s) ==
    LET t == Strip(s)
        n == ToNat(Split(Unsigned(t), ".")[1])
    IN  IF Len(t) > 0 /\ Char(t, 1) = "-" THEN 0 - n ELSE n

YearKey(key) == Contains(key, "Year") \/ Contains(key, "year")

\* val after the "pre 4.0 legacy cleanup": the rule assigns to val, and the
\* rules after it read the new value.
YearVal(key, val) ==
    IF YearKey(key) /\ Contains(val, ".0") THEN DropLast2(val) ELSE val

YearBadMsg == "The year provided in the metadata "

YearRangeMsg == "The year in the meta.txt file is invalid (expected value is between 1950 and present): "

YearRule(key, val) ==
    IF ~YearKey(key) THEN <<>>
    ELSE LET v == YearVal(key, val) IN
         IF Contains(v, "to")
         THEN LET d == Split(v, " to ") IN
              \* the unpacking raises unless there are exactly two parts
              IF Len(d) = 2 /\ IsDate(d[1]) /\ IsDate(d[2])
              THEN Info("Valid date range " \o v \o " detected.")
              ELSE Critical(YearBadMsg \o v)
         ELSE IF ~IsFloat(v) THEN Critical(YearBadMsg \o v)
         ELSE IF IntOfFloat(v) > 1950 /\ IntOfFloat(v) <= CurrentYear
              THEN Info("Valid year " \o v)
              ELSE Critical(YearRangeMsg \o v)

(***************************************************************************)
(* metaCheck: the other field rules, in the order of the code              *)
(***************************************************************************)
\* val.lower() not in ["na", "nan", "null"]
NotNa(val) == Lower(val) \notin {"na", "nan", "null"}

\* len(val.replace(" ", "")) > 0
NonEmpty(val) == Len(RemoveSpaces(val)) > 0

validTypes == {"ADM0", "ADM1", "ADM2", "ADM3", "ADM4", "ADM5"}

BoundaryTypeRule(key, val) ==
    IF Contains(Lower(key), "boundary type") /\ ~Contains(Lower(key), "name")
    THEN IF RemoveSpaces(Upper(val)) \in validTypes
         THEN Info("Valid Boundary Type detected: " \o val)
         ELSE Critical("The boundary type in the meta.txt file is invalid: " \o val)
    ELSE <<>>

IsoRule(key, val) ==
    IF Contains(Strip(Lower(key)), "iso")
    THEN IF Len(val) # 3
         THEN Critical("ISO is invalid - we expect a 3-character ISO code following ISO-3166-1 (Alpha 3).")
         ELSE IF val \notin isoList1
         THEN Critical("ISO is not on our list of valid ISO-3 codes.")
         ELSE Info("Valid ISO detected: " \o val)
    ELSE <<>>

\* A non-empty value that is na, nan or null prints nothing: the inner if has
\* no else.
CanonicalRule(key, val) ==
    IF Contains(Lower(key), "canonical")
    THEN IF NonEmpty(val)
         THEN (IF NotNa(val) THEN Info("Canonical name detected: " \o val) ELSE <<>>)
         ELSE Warn("No canonical name detected.")
    ELSE <<>>

SourceRule(key, val) ==
    IF /\ Contains(Lower(key), "source")
       /\ ~Contains(Lower(key), "license")
       /\ ~Contains(Lower(key), "data")
    THEN IF NonEmpty(val) /\ NotNa(val) THEN Info("Source detected: " \o val) ELSE <<>>
    ELSE <<>>

releaseTypes ==
    {"geoboundaries", "gbauthoritative", "gbhumanitarian", "gbopen", "un_salb", "un_ocha"}

ReleaseTypeRule(key, val) ==
    IF Contains(Lower(key), "release type")
    THEN IF Lower(val) \notin releaseTypes
         THEN Critical("Invalid release type detected: " \o val)
         ELSE Info("Valid Release Type detected: " \o val)
    ELSE <<>>

LicenseKey(key) == Lower(key) = "license"

\* val after the shorthand is written out: the rule assigns to val.
LicenseVal(key, val) == IF LicenseKey(key) /\ val = IgoShort THEN IgoLong ELSE val

\* val.lower().strip() not in licenseList1: the value is lowered, the names of
\* the list are compared as they are.
LicenseListed(val, list) == Strip(Lower(val)) \in list

LicenseRule(key, val) ==
    IF LicenseKey(key)
    THEN LET v == LicenseVal(key, val) IN
         IF ~LicenseListed(v, licenseList1)
         THEN Critical("Invalid license detected: " \o v)
         ELSE Info("Valid license type detected: " \o v)
    ELSE <<>>

LicenseNotesRule(key, val) ==
    IF Contains(Lower(key), "license notes")
    THEN IF NonEmpty(val)
         THEN (IF NotNa(val) THEN Info("License notes detected: " \o val) ELSE <<>>)
         ELSE Info("No license notes detected.")
    ELSE <<>>

LicenseSourceRule(key, val) ==
    IF Contains(Lower(key), "license source")
    THEN IF NonEmpty(val)
         THEN (IF NotNa(val)
               THEN Info("License source detected: " \o val)
               ELSE Critical("No license source detected."))
         ELSE Critical("No license source detected.")
    ELSE <<>>

LinkRule(key, val) ==
    IF Contains(Lower(key), "link to source data")
    THEN IF NonEmpty(val)
         THEN (IF NotNa(val)
               THEN Info("Data Source Found: " \o val)
               ELSE Critical("ERROR: No link to source data found."))
         ELSE Critical("ERROR: No link to source data found.")
    ELSE <<>>

OtherNotesRule(key, val) ==
    IF Contains(Lower(key), "other notes")
    THEN IF NonEmpty(val)
         THEN (IF NotNa(val) THEN Info("Other notes detected: " \o val) ELSE <<>>)
         ELSE Warn("No other notes detected.  This field is optional.")
    ELSE <<>>

(***************************************************************************)
(* metaCheck: one iteration of the loop, and the loop                      *)
(***************************************************************************)
\* What each rule printed for line m, by rule, with the pair the line parsed to.
LineRules(m) ==
    LET p  == ParseLine(m)
        k  == p.key
        v1 == YearVal(k, p.val)
        v2 == LicenseVal(k, v1)
    IN  [key |-> k, val |-> p.val,
         read |-> p.log,
         year |-> YearRule(k, p.val),
         boundaryType |-> BoundaryTypeRule(k, v1),
         iso |-> IsoRule(k, v1),
         canonical |-> CanonicalRule(k, v1),
         source |-> SourceRule(k, v1),
         releaseType |-> ReleaseTypeRule(k, v1),
         license |-> LicenseRule(k, v1),
         licenseNotes |-> LicenseNotesRule(k, v2),
         licenseSource |-> LicenseSourceRule(k, v2),
         link |-> LinkRule(k, v2),
         otherNotes |-> OtherNotesRule(k, v2)]

\* What the rules printed for a line, in the order they run.
RuleLog(r) ==
    r.year \o r.boundaryType \o r.iso \o r.canonical \o r.source \o r.releaseType
      \o r.license \o r.licenseNotes \o r.licenseSource \o r.link \o r.otherNotes

\* Everything one iteration printed.
LineLog(r) == r.read \o RuleLog(r)

BeginMsg == "Beginning meta.txt validity checks."

RECURSIVE ConcatLogs(_)
ConcatLogs(rs) == IF rs = <<>> THEN <<>> ELSE LineLog(Head(rs)) \o ConcatLogs(Tail(rs))

\* metaCheck on the text metaLoad returned, given as metaData.splitlines():
\* the opening INFO, then the iterations in line order.
MetaCheckRun(lines) ==
    LET rs == [i \in 1..Len(lines) |-> LineRules(lines[i])] IN
    [lines |-> rs,
     log |-> Info(BeginMsg) \o ConcatLogs(rs)]

(***************************************************************************)
(* nameCheck and isoCheck                                                  *)
(***************************************************************************)
nameC == {"Name", "name", "NAME", "shapeName", "shapename", "SHAPENAME", "MAX_Name"}

isoC ==
    {"ISO", "ISO_code", "ISO_Code", "iso", "shapeISO", "shapeiso", "shape_iso", "MAX_ISO_Co"}

\* The try block after a column is detected: geomData[col][0] raises on a
\* frame without rows, and .str on a column that does not hold text only.
SampleRaises(geomData, col) == geomData.features = <<>> \/ col \notin geomData.textColumns

\* Both checks: intersect the candidates with the columns; with exactly one
\* match print the column and then the sample, or a WARN when sampling raises;
\* with no match or several print nothing.
ColumnCheckRun(candidates, geomData, what) ==
    LET nameCol == candidates \cap geomData.columns IN
    IF Cardinality(nameCol) = 1
    THEN LET col == CHOOSE c \in nameCol : TRUE IN
         Info("Column for " \o what \o " detected: " \o col)
           \o (IF SampleRaises(geomData, col)
               THEN Warn("No " \o what \o " values were found, even though a column was present.")
               ELSE Info(what \o " values | Example"))
    ELSE <<>>

NameCheckRun(geomData) == ColumnCheckRun(nameC, geomData, "name")

IsoCheckRun(geomData) == ColumnCheckRun(isoC, geomData, "ISO")

(***************************************************************************)
(* boundaryCheck and projectionCheck                                       *)
(***************************************************************************)
\* 180 and 90 degrees and tol = 1e-5, in units of 1e-5 degree.
MaxLon == 18000000

MaxLat == 9000000

tol == 1

\* One iteration, for a feature whose geometry g is [xmin, ymin, xmax, ymax,
\* valid, fixable]: fixable says whether g.buffer(0) is valid.
FeatureLog(g) ==
    LET inside == /\ g.xmin >= 0 - MaxLon - tol
                  /\ g.xmax <= MaxLon + tol
                  /\ g.ymin >= 0 - MaxLat - tol
                  /\ g.ymax <= MaxLat + tol
    IN  (IF inside THEN <<>>
         ELSE Critical("ERROR: This geometry seems to extend past the boundaries of the earth: "))
          \o (IF g.valid THEN <<>>
              ELSE Warn("Something is wrong with this geometry, but we might be able to fix it with a buffer: ")
                     \o (IF g.fixable
                         THEN Warn("A geometry error was corrected with buffer=0 in shapely.")
                         ELSE Critical("ERROR: Something is wrong with this geometry, and we can't fix it: ")))

RECURSIVE BoundaryLoop(_)
\* The loop over geomData.iterrows(). A feature without geometry is
\* [null |-> TRUE]: its row["geometry"] is None, .bounds raises, and the loop
\* stops there.
BoundaryLoop(features) ==
    IF features = <<>> THEN [raised |-> FALSE, log |-> <<>>, each |-> <<>>]
    ELSE IF Head(features).null THEN [raised |-> TRUE, log |-> <<>>, each |-> <<>>]
    ELSE LET rest == BoundaryLoop(Tail(features)) IN
         [raised |-> rest.raised,
          log |-> FeatureLog(Head(features)) \o rest.log,
          \* what each completed iteration printed, in the order of the rows
          each |-> <<FeatureLog(Head(features))>> \o rest.each]

BoundaryCheckRun(geomData) == BoundaryLoop(geomData.features)

\* geomData.crs == "epsg:4326"
ProjectionCheckRun(geomData) ==
    IF geomData.crs = "EPSG:4326"
    THEN Info("Projection confirmed as " \o geomData.crs)
    ELSE Critical("The projection must be EPSG 4326.  The file proposed has a projection of: "
                    \o geomData.crs)

(***************************************************************************)
(* checkLicensePng                                                         *)
(***************************************************************************)
license_extensions == <<".png", ".jpg">>

RECURSIVE ExtensionLoop(_, _)
\* for ext in exts: the first extension some name ends with prints INFO and
\* returns True; every extension tried before it, or all of them when none
\* matches, prints the WARN of the else branch.
ExtensionLoop(exts, file_names) ==
    IF exts = <<>> THEN [result |-> "None", log |-> <<>>]
    ELSE IF \E file \in file_names : EndsWith(Lower(file), Head(exts))
    THEN [result |-> "True",
          log |-> Info("License image found with extension " \o Head(exts) \o ".")]
    ELSE LET rest == ExtensionLoop(Tail(exts), file_names) IN
         [result |-> rest.result,
          log |-> Warn("No license image found. Checked for license.png and license.jpg.")
                    \o rest.log]

\* checkLicensePng(p), file_names the namelist of the archive at p.
CheckLicensePngRun(p, file_names) ==
    IF EndsWith(p, ".zip")
    THEN [raised |-> FALSE] @@ ExtensionLoop(license_extensions, file_names)
    ELSE [raised |-> TRUE, result |-> "None", log |-> <<>>]

(***************************************************************************)
(* Submissions: the files a path names                                     *)
(***************************************************************************)
Geom(x0, y0, x1, y1, v, f) ==
    [null |-> FALSE, xmin |-> x0, ymin |-> y0, xmax |-> x1, ymax |-> y1,
     valid |-> v, fixable |-> f]

\* A clean geometry file: unique name and ISO columns, EPSG:4326, one feature.
GeoClean ==
    [columns |-> {"shapeName", "shapeISO", "geometry"},
     textColumns |-> {"shapeName", "shapeISO"},
     crs |-> "EPSG:4326",
     features |-> <<Geom(-7000000, 1000000, -6000000, 2000000, TRUE, TRUE)>>]

\* A defective one: two name columns, a numeric ISO column, another projection,
\* a feature past the extent and an invalid feature that a buffer repairs.
GeoDefective ==
    [columns |-> {"Name", "NAME", "ISO", "geometry"},
     textColumns |-> {"Name", "NAME"},
     crs |-> "EPSG:3857",
     features |-> <<Geom(-7000000, 1000000, 18100000, 2000000, TRUE, TRUE),
                    Geom(0, 0, 100, 100, FALSE, TRUE)>>]

MetaClean == <<"ISO: USA", "Year: 2020">>

MetaDefective == <<"Year: 1800", "no colon here">>

\* zip_ref.namelist() of each archive; C.zip holds no geometry file.
namelist(p) ==
    CASE p = "A.zip" -> {"a.geojson", "meta.txt", "license.png"}
      [] p = "B.zip" -> {"b.geojson", "meta.txt", "license.jpg"}
      [] p = "C.zip" -> {"meta.txt"}
      [] OTHER -> {}

\* The paths allChecks is called with: archives, a bare geometry file, a bare
\* metadata file.
Submissions == {"A.zip", "B.zip", "C.zip", "bare.geojson", "bare.txt"}

\* gpd.read_file of a file: B.zip's geometry is the defective one.
GeoData(file) == IF file.from = "B.zip" THEN GeoDefective ELSE GeoClean

\* The lines of a metadata file.
MetaData(file) == IF file.from = "B.zip" THEN MetaDefective ELSE MetaClean

NoFile == [name |-> "", from |-> ""]

(***************************************************************************)
(* loadFile, metaLoad and close                                            *)
(***************************************************************************)
\* zip_ref.extractall(extracted_folder): the archive's files replace the files
\* of the same names; the others stay.
Extract(fold, p) ==
    {f \in fold : f.name \notin namelist(p)}
      \cup {[name |-> n, from |-> p] : n \in namelist(p)}

\* The loaders, for the extensions exts they look for: every outcome the call
\* can have. An archive is extracted into the shared folder and the first file
\* of os.listdir() with one of the extensions is read; listdir's order is
\* arbitrary, so any such file of the folder can be the first. Without one the
\* call returns None. A bare file with one of the extensions is read as it is;
\* any other path raises ValueError.
Load(fold, p, exts) ==
    LET Wanted(n) == \E x \in exts : EndsWith(n, x) IN
    IF EndsWith(p, ".zip")
    THEN LET extracted == Extract(fold, p)
             selected == {f \in extracted : Wanted(f.name)}
         IN  IF selected = {}
             THEN {[kind |-> "None", folder |-> extracted, file |-> NoFile]}
             ELSE {[kind |-> "data", folder |-> extracted, file |-> f] : f \in selected}
    ELSE IF Wanted(p)
    THEN {[kind |-> "data", folder |-> fold, file |-> [name |-> p, from |-> p]]}
    ELSE {[kind |-> "raise", folder |-> fold, file |-> NoFile]}

loadFile(fold, p) == Load(fold, p, {".geojson", ".shp"})

metaLoad(fold, p) == Load(fold, p, {".txt"})

(***************************************************************************)
(* metaCheck called on its own                                             *)
(***************************************************************************)
MaxLines == 3

SeqsUpTo(S, n) == UNION {[1..k -> S] : k \in 0..n}

YearKeys == {"Year", "year", "YEAR"}

YearValues ==
    {"2020", "2020.0", "2020.05", "2020.7", "1950", "1800", "2026", "2027", "abc",
     "01-01-2015 to 31-12-2016", "31-02-2015 to 31-12-2016", "1-1-2015 to 2016"}

PresenceKeys ==
    {"Canonical", "License Notes", "License Source", "Link to Source Data", "Other Notes"}

PresenceValues == {"", "na", "NaN", "null", "Some text"}

LicenseValues == {IgoShort, IgoLong, "Public Domain", "public domain", "Bogus"}

\* Lines of a meta.txt: each key with each of its values, lines whose value
\* holds colons, lines without a colon, and the other fields.
MetaLines ==
    {k \o ": " \o v : k \in YearKeys, v \in YearValues}
      \cup {k \o ": " \o v : k \in PresenceKeys, v \in PresenceValues}
      \cup {k \o ": " \o v : k \in {"License", "license"}, v \in LicenseValues}
      \cup {"Source: http://example.com:8080/data", "Source: a:b", "Source: 10:20:30:40:50",
            "Year: 2020:0", "no colon here", "year 2020", "",
            "ISO: USA", "ISO: US", "Boundary Type: adm 1", "Release Type: gbOpen"}

\* Lines that exercise the parser: no colon, empty, one colon, several.
ParseLines ==
    {"no colon here", "year 2020", "", "ISO: USA", "Canonical:", "Source: a:b",
     "Source: http://example.com:8080/data", ":"}

NotCalled == [called |-> FALSE]

(***************************************************************************)
(* allChecks: runs of it that share the extraction folder                  *)
(*                                                                         *)
(* A step of a run is one check, its loader call included: runs interleave *)
(* between checks, not inside one.                                         *)
(***************************************************************************)
Runs == {"r1", "r2"}

vars == <<licenseList1, folder, path, pc, raised, findings, loaded, passed, arg, out>>

runVars == <<folder, path, pc, raised, findings, loaded, passed>>

Ok(lg) == [raised |-> FALSE, log |-> lg]

Raise == [raised |-> TRUE, log |-> <<>>]

\* The end of one check of run r, which read file and printed o.log: an error
\* leaves allChecks, else the run goes on to the next check.
Advance(r, next, fold, file, o) ==
    /\ folder' = fold
    /\ loaded' = [loaded EXCEPT ![r] = file]
    /\ findings' = [findings EXCEPT ![r] = @ \o o.log]
    /\ IF o.raised
       THEN raised' = [raised EXCEPT ![r] = pc[r]] /\ pc' = pc
       ELSE pc' = [pc EXCEPT ![r] = next] /\ raised' = raised

\* What a check on the geometry does with the frame loadFile returned.
GeomRun(check, geomData) ==
    CASE check = "nameCheck" -> Ok(NameCheckRun(geomData))
      [] check = "isoCheck" -> Ok(IsoCheckRun(geomData))
      [] check = "boundaryCheck" -> BoundaryCheckRun(geomData)
      [] check = "projectionCheck" -> Ok(ProjectionCheckRun(geomData))

\* A check on the geometry: loadFile, then the check on what it returned.
\* None has no columns, rows or crs: the check raises AttributeError.
GeomCheck(r, check, next) ==
    /\ pc[r] = check /\ raised[r] = "none"
    /\ \E res \in loadFile(folder, path[r]) :
          Advance(r, next, res.folder, res.file,
                  IF res.kind = "data" THEN GeomRun(check, GeoData(res.file)) ELSE Raise)
    /\ UNCHANGED <<licenseList1, path, passed, arg, out>>

NameCheck(r) == GeomCheck(r, "nameCheck", "isoCheck")

IsoCheck(r) == GeomCheck(r, "isoCheck", "boundaryCheck")

BoundaryCheck(r) == GeomCheck(r, "boundaryCheck", "projectionCheck")

ProjectionCheck(r) == GeomCheck(r, "projectionCheck", "metaCheck")

\* metaLoad, then the opening INFO, then the loop. metaLoad's ValueError leaves
\* before the INFO; after a None the INFO is printed and None.splitlines()
\* raises AttributeError.
MetaCheck(r) ==
    /\ pc[r] = "metaCheck" /\ raised[r] = "none"
    /\ \E res \in metaLoad(folder, path[r]) :
          Advance(r, "checkLicensePng", res.folder, res.file,
                  CASE res.kind = "data" -> Ok(MetaCheckRun(MetaData(res.file)).log)
                    [] res.kind = "None" -> [raised |-> TRUE, log |-> Info(BeginMsg)]
                    [] res.kind = "raise" -> Raise)
    /\ UNCHANGED <<licenseList1, path, passed, arg, out>>

\* The last check, and allChecks' closing print when it returns.
CheckLicensePng(r) ==
    /\ pc[r] = "checkLicensePng" /\ raised[r] = "none"
    /\ LET o == CheckLicensePngRun(path[r], namelist(path[r])) IN
       /\ Advance(r, "Completed", folder, loaded[r], o)
       /\ passed' = [passed EXCEPT ![r] = ~o.raised]
    /\ UNCHANGED <<licenseList1, path, arg, out>>

\* close(): shutil.rmtree of the extraction folder.
Close ==
    /\ folder # {}
    /\ folder' = {}
    /\ UNCHANGED <<licenseList1, path, pc, raised, findings, loaded, passed, arg, out>>

\* No run of allChecks: the state of the specifications that call one check.
NoRuns ==
    /\ folder = {}
    /\ path = [r \in Runs |-> "none"]
    /\ pc = [r \in Runs |-> "Completed"]
    /\ raised = [r \in Runs |-> "none"]
    /\ findings = [r \in Runs |-> <<>>]
    /\ loaded = [r \in Runs |-> NoFile]
    /\ passed = [r \in Runs |-> FALSE]

Init ==
    /\ licenseList1 = LicenseTable
    /\ folder = {}
    /\ path \in [Runs -> Submissions]
    /\ pc = [r \in Runs |-> "nameCheck"]
    /\ raised = [r \in Runs |-> "none"]
    /\ findings = [r \in Runs |-> <<>>]
    /\ loaded = [r \in Runs |-> NoFile]
    /\ passed = [r \in Runs |-> FALSE]
    /\ arg = <<>>
    /\ out = NotCalled

Next ==
    \/ \E r \in Runs :
          \/ NameCheck(r)
          \/ IsoCheck(r)
          \/ BoundaryCheck(r)
          \/ ProjectionCheck(r)
          \/ MetaCheck(r)
          \/ CheckLicensePng(r)
    \/ Close

Spec == Init /\ [][Next]_vars

(***************************************************************************)
(* The checks called on their own                                          *)
(***************************************************************************)
\* One line of MetaLines, alone or after a line of ParseLines.
InitMeta ==
    /\ licenseList1 \in LicenseTables
    /\ NoRuns
    /\ arg \in {p \o <<m>> : p \in SeqsUpTo(ParseLines, 1), m \in MetaLines}
    /\ out = NotCalled

\* Every text of at most MaxLines lines of ParseLines.
InitParse ==
    /\ licenseList1 \in LicenseTables
    /\ NoRuns
    /\ arg \in SeqsUpTo(ParseLines, MaxLines)
    /\ out = NotCalled

MetaCheckCall ==
    /\ out = NotCalled
    /\ out' = [called |-> TRUE] @@ MetaCheckRun(arg)
    /\ UNCHANGED <<licenseList1, arg>>
    /\ UNCHANGED runVars

SpecMeta == InitMeta /\ [][MetaCheckCall]_vars

SpecParse == InitParse /\ [][MetaCheckCall]_vars

\* checkLicensePng on its own: an archive with any of these entries, or a
\* path that is no archive.
EntryNames ==
    {"a.geojson", "meta.txt", "license.png", "LICENSE.PNG", "license.jpg", "logo.JPG",
     "png.txt"}

InitLicense ==
    /\ licenseList1 = LicenseTable
    /\ NoRuns
    /\ arg \in [path : {"sub.zip"}, names : SUBSET EntryNames]
                 \cup [path : {"sub.geojson", "meta.txt", "zip"}, names : {{}}]
    /\ out = NotCalled

CheckLicensePngCall ==
    /\ out = NotCalled
    /\ out' = [called |-> TRUE] @@ CheckLicensePngRun(arg.path, arg.names)
    /\ UNCHANGED <<licenseList1, arg>>
    /\ UNCHANGED runVars

SpecLicense == InitLicense /\ [][CheckLicensePngCall]_vars

\* nameCheck and isoCheck on their own, on a frame with any of these columns,
\* all of them text or none, with one row or none.
ColumnNames == {"Name", "NAME", "shapeName", "ISO", "shapeISO", "iso", "id"}

Frame(cs, text, fs) ==
    [columns |-> cs, textColumns |-> IF text THEN cs ELSE {}, crs |-> "EPSG:4326",
     features |-> fs]

InitColumns ==
    /\ licenseList1 = LicenseTable
    /\ NoRuns
    /\ arg \in {Frame(cs, text, fs) :
                  cs \in SUBSET ColumnNames, text \in BOOLEAN,
                  fs \in {<<>>, GeoClean.features}}
    /\ out = NotCalled

NameCheckCall ==
    /\ out = NotCalled
    /\ out' = [called |-> TRUE, check |-> "nameCheck", log |-> NameCheckRun(arg)]
    /\ UNCHANGED <<licenseList1, arg>>
    /\ UNCHANGED runVars

IsoCheckCall ==
    /\ out = NotCalled
    /\ out' = [called |-> TRUE, check |-> "isoCheck", log |-> IsoCheckRun(arg)]
    /\ UNCHANGED <<licenseList1, arg>>
    /\ UNCHANGED runVars

SpecColumns == InitColumns /\ [][NameCheckCall \/ IsoCheckCall]_vars

\* boundaryCheck on its own, on every frame of at most MaxFeatures features:
\* a bounding box inside the extent, on its edge (180 degrees plus tol), just
\* past it in longitude or in latitude; a geometry that is valid, invalid and
\* repaired by the buffer, or invalid and not repaired; or no geometry.
MaxFeatures == 2

Boxes ==
    {<<-7000000, 1000000, -6000000, 2000000>>,
     <<-7000000, 1000000, MaxLon + tol, 2000000>>,
     <<-7000000, 1000000, MaxLon + tol + 1, 2000000>>,
     <<-7000000, 0 - MaxLat - tol - 1, -6000000, 2000000>>}

Features ==
    {Geom(b[1], b[2], b[3], b[4], v[1], v[2]) :
        b \in Boxes, v \in {<<TRUE, TRUE>>, <<FALSE, TRUE>>, <<FALSE, FALSE>>}}
      \cup {[null |-> TRUE]}

InitBoundary ==
    /\ licenseList1 = LicenseTable
    /\ NoRuns
    /\ arg \in {Frame({"geometry"}, FALSE, fs) : fs \in SeqsUpTo(Features, MaxFeatures)}
    /\ out = NotCalled

BoundaryCheckCall ==
    /\ out = NotCalled
    /\ out' = [called |-> TRUE] @@ BoundaryCheckRun(arg)
    /\ UNCHANGED <<licenseList1, arg>>
    /\ UNCHANGED runVars

SpecBoundary == InitBoundary /\ [][BoundaryCheckCall]_vars

(***************************************************************************)
(* Properties of allChecks                                                 *)
(***************************************************************************)
\* C1: a full run always reaches Completed, whatever the path and the content:
\* no error raised by a check ends the run before the later checks.
C1_NoCheckEndsTheRun == \A r \in Runs : raised[r] = "none"

\* C2: at the end of a full run "All checks are passes" is printed iff no
\* CRITICAL finding was printed during the run.
C2_PassIffNoCritical ==
    \A r \in Runs : pc[r] = "Completed" => (passed[r] <=> ~HasCritical(findings[r]))

\* What the six checks print for archive p when it is validated alone, from
\* the one geometry file and the one metadata file it holds.
SoloLog(p) ==
    LET g == GeoData([name |-> "", from |-> p])
    IN  NameCheckRun(g) \o IsoCheckRun(g) \o BoundaryCheckRun(g).log \o ProjectionCheckRun(g)
          \o MetaCheckRun(MetaData([name |-> "", from |-> p])).log
          \o CheckLicensePngRun(p, namelist(p)).log

\* C3: runs on archives do not see each other: every file a run's loadFile or
\* metaLoad reads was extracted from the run's own archive, and a completed
\* run printed what validating its archive alone prints.
C3_RunsIsolated ==
    \A r \in Runs :
        EndsWith(path[r], ".zip") =>
            /\ loaded[r] # NoFile => loaded[r].from = path[r]
            /\ pc[r] = "Completed" => findings[r] = SoloLog(path[r])

(***************************************************************************)
(* Properties of checkLicensePng and of column detection                   *)
(***************************************************************************)
\* C9: on an archive the check prints exactly one finding: INFO, and returns
\* True, when an entry ends in .png or .jpg in any letter case, else one WARN;
\* on a path that is no archive it raises and prints nothing.
C9_OneLicenseFinding ==
    out.called =>
        IF EndsWith(arg.path, ".zip")
        THEN /\ ~out.raised
             /\ IF \E n \in arg.names : EndsWith(Lower(n), ".png") \/ EndsWith(Lower(n), ".jpg")
                THEN Sevs(out.log) = <<"INFO">> /\ out.result = "True"
                ELSE Sevs(out.log) = <<"WARN">>
        ELSE out.raised /\ out.log = <<>>

\* C10: detection reports its outcome, whichever of the three it is: with one
\* matching column the first finding is the INFO naming it; with none or with
\* several at least one finding is printed, none of them CRITICAL.
C10_EveryOutcomeReported ==
    out.called =>
        LET matched == (IF out.check = "nameCheck" THEN nameC ELSE isoC) \cap arg.columns
            what == IF out.check = "nameCheck" THEN "name" ELSE "ISO"
        IN  IF Cardinality(matched) = 1
            THEN /\ Len(out.log) >= 1
                 /\ \E c \in matched :
                       out.log[1] = [sev |-> "INFO", msg |-> "Column for " \o what \o " detected: " \o c]
            ELSE /\ Len(out.log) >= 1
                 /\ \A i \in 1..Len(out.log) : out.log[i].sev \in {"INFO", "WARN"}

(***************************************************************************)
(* Properties of the metadata parser and the field rules                   *)
(***************************************************************************)
RECURSIVE JoinAll(_)
\* The parts of a sequence of strings written one after the other.
JoinAll(ps) == IF ps = <<>> THEN "" ELSE Head(ps) \o JoinAll(Tail(ps))

\* C4: a line that splits on ":" into more than two parts parses to the
\* trimmed first part as key and, as value, all the parts from the second to
\* the last written one after the other, then trimmed.
C4_ValueJoinsAllParts ==
    out.called =>
        \A i \in 1..Len(arg) :
            LET e == Split(arg[i], ":") IN
            Len(e) > 2 =>
                /\ out.lines[i].key = Strip(e[1])
                /\ out.lines[i].val = Strip(JoinAll(Tail(e)))

\* C5, amended: the parser is total. Every line of the text, an empty line
\* included, yields one pair, in line order; a line with no colon (an empty
\* line is one) yields ("readError", "readError") and prints
\* exactly one WARN that cites the line and nothing else (no field rule fires
\* on the sentinel); a line with a colon prints no read error and keeps its key,
\* wherever it stands, so "ISO: USA" is validated after any line; and the log
\* is the opening line followed by every line's findings.
C5_ParserTotal ==
    out.called =>
        /\ Len(out.lines) = Len(arg)
        /\ \A i \in 1..Len(arg) :
              LET r == out.lines[i] IN
              IF Contains(arg[i], ":")
              THEN /\ r.read = <<>>
                   /\ r.key = Strip(Split(arg[i], ":")[1])
                   /\ arg[i] = "ISO: USA" => Sevs(LineLog(r)) = <<"INFO">>
              ELSE /\ r.key = "readError" /\ r.val = "readError"
                   /\ LineLog(r) = <<[sev |-> "WARN", msg |-> ReadErrorMsg \o arg[i]]>>
        /\ Len(out.log) = 1 + Len(ConcatLogs(out.lines))
        /\ \A j \in 1..Len(ConcatLogs(out.lines)) : out.log[j + 1] = ConcatLogs(out.lines)[j]

\* C5 as stated: the text yields one pair per non-empty line, so as many pairs
\* as it has non-empty lines.
C5_OnePairPerNonEmptyLine ==
    out.called => Len(out.lines) = Cardinality({i \in 1..Len(arg) : arg[i] # ""})

\* A line without a colon, and an empty line, each followed by a line that is
\* then validated.
C5_Witness ==
    /\ out.called
    /\ Len(arg) = 3
    /\ arg[1] = "no colon here" /\ arg[2] = "" /\ arg[3] = "ISO: USA"
    /\ Sevs(out.log) = <<"INFO", "WARN", "WARN", "INFO">>

\* What the presence rules accept: a value that is not empty and not one of
\* na, nan, null in any letter case.
Present(val) == Strip(val) # "" /\ Lower(val) \notin {"na", "nan", "null"}

\* C6: each presence rule prints exactly one finding for a line whose key
\* matches it: INFO for a present value, else the rule's failure severity.
C6_PresenceRulesEmitOne ==
    out.called =>
        \A i \in 1..Len(arg) :
            LET r == out.lines[i]
                k == Lower(r.key)
                One(log, failure) == Sevs(log) = <<IF Present(r.val) THEN "INFO" ELSE failure>>
            IN  /\ Contains(k, "canonical") => One(r.canonical, "WARN")
                /\ Contains(k, "license notes") => One(r.licenseNotes, "INFO")
                /\ Contains(k, "license source") => One(r.licenseSource, "CRITICAL")
                /\ Contains(k, "link to source data") => One(r.link, "CRITICAL")
                /\ Contains(k, "other notes") => One(r.otherNotes, "WARN")

\* The severity C7 states for a year value: only a trailing ".0" is dropped; a
\* value with " to " is valid iff both sides are day-month-year dates; any
\* other value is valid iff it is an integer year in (1950, current year].
StatedYearSev(val) ==
    LET v == IF EndsWith(val, ".0") THEN DropLast2(val) ELSE val IN
    IF Contains(v, " to ")
    THEN LET d == Split(v, " to ") IN
         IF Len(d) = 2 /\ IsDate(d[1]) /\ IsDate(d[2]) THEN "INFO" ELSE "CRITICAL"
    ELSE IF IsDigits(v) /\ ToNat(v) > 1950 /\ ToNat(v) <= CurrentYear
         THEN "INFO" ELSE "CRITICAL"

\* C7: for a line whose key contains "year" in any letter case the year rule
\* prints exactly one finding, of the severity stated above.
C7_YearRuleEmitsOne ==
    out.called =>
        \A i \in 1..Len(arg) :
            LET r == out.lines[i] IN
            Contains(Lower(r.key), "year") => Sevs(r.year) = <<StatedYearSev(r.val)>>

\* C8: for a line whose lowercased key is "license" the rule prints INFO iff
\* the value, the shorthand written out, equals a name of the vocabulary when
\* both are trimmed and compared without regard to letter case, else CRITICAL.
C8_LicenseCaseInsensitive ==
    out.called =>
        \A i \in 1..Len(arg) :
            LET r == out.lines[i]
                v == IF r.val = IgoShort THEN IgoLong ELSE r.val
            IN  Lower(r.key) = "license" =>
                    Sevs(r.license) =
                        <<IF \E n \in licenseList1 : Lower(Strip(n)) = Lower(Strip(v))
                          THEN "INFO" ELSE "CRITICAL">>

(***************************************************************************)
(* Properties of boundaryCheck                                             *)
(***************************************************************************)
RECURSIVE ConcatSeqs(_)
\* The sequences of a sequence written one after the other.
ConcatSeqs(ss) == IF ss = <<>> THEN <<>> ELSE Head(ss) \o ConcatSeqs(Tail(ss))

\* The findings C11 states for a feature with geometry g: a CRITICAL when the
\* bounding box leaves [-180 - tol, 180 + tol] x [-90 - tol, 90 + tol]; then,
\* for an invalid geometry, a WARN followed by a WARN when the zero-distance
\* buffer is valid and by a CRITICAL when it is not.
StatedFeatureSevs(g) ==
    (IF /\ g.xmin >= 0 - MaxLon - tol /\ g.xmax <= MaxLon + tol
        /\ g.ymin >= 0 - MaxLat - tol /\ g.ymax <= MaxLat + tol
     THEN <<>> ELSE <<"CRITICAL">>)
      \o (IF g.valid THEN <<>>
          ELSE IF g.fixable THEN <<"WARN", "WARN">> ELSE <<"WARN", "CRITICAL">>)

\* C11: geometry validation visits every feature of the collection, in
\* collection order, and prints for each feature with a geometry the findings
\* stated above; no feature keeps the later ones from being evaluated.
C11_EveryFeatureEvaluated ==
    out.called =>
        /\ Len(out.each) = Len(arg.features)
        /\ \A i \in 1..Len(out.each) :
              ~arg.features[i].null => Sevs(out.each[i]) = StatedFeatureSevs(arg.features[i])

\* What does hold of the loop: the features up to the first one without a
\* geometry are evaluated, in order, each printing the findings stated above,
\* and a frame whose features all have a geometry is evaluated to its end.
BoundaryUpToFirstNull ==
    out.called =>
        LET fs == arg.features
            stop == {i \in 1..Len(fs) : fs[i].null}
            n == IF stop = {} THEN Len(fs)
                 ELSE (CHOOSE i \in stop : \A j \in stop : i <= j) - 1
        IN  /\ Len(out.each) = n
            /\ out.raised <=> stop # {}
            /\ \A i \in 1..n : Sevs(out.each[i]) = StatedFeatureSevs(fs[i])
            /\ Len(out.log) = Len(ConcatSeqs(out.each))
            /\ \A j \in 1..Len(out.log) : out.log[j] = ConcatSeqs(out.each)[j]
====
